---- MODULE Spec2Model ----
(***************************************************************************)
(* Model of the gameplay core of the racing backend, ai_engine/ai_models.py *)
(* (OpponentAI, DifficultyAdjuster).                                        *)
(*                                                                          *)
(* Numbers.  Python floats are modelled by exact scaled integers:           *)
(*   - reaction_time, aggression, skill_level and the random.random()       *)
(*     draws are in hundredths (0.85 is 85);                                *)
(*   - speeds and the noise of calculate_speed are in thousandths           *)
(*     (50 is 50000); every product of calculate_speed is exact there;      *)
(*   - win probabilities are in thousandths (0.5 is 500).                   *)
(***************************************************************************)
EXTENDS Integers, Sequences, FiniteSets, TLC

VARIABLES
    ai,                   \* the OpponentAI instance (its attributes)
    performance_history,  \* DifficultyAdjuster.performance_history
    trained,              \* DifficultyAdjuster.trained
    model,                \* DifficultyAdjuster.model (the fitted coefficients)
    call,                 \* the last call made: its name, arguments, random draws
    ret,                  \* what the last call returned
    recorded,             \* history variable: every record passed to record_performance
    fit_failures,         \* history variable: how many model.fit calls have raised
                          \* (counted up to FailuresCounted)
    rng,                  \* the state of the process-wide generator of module random
    traffic,              \* the vehicles a client holds between its requests
    ticks,                \* history variable: update_traffic calls since generation
    adjusters,            \* DifficultyAdjustmentView.adjusters: player id -> engine
                          \* reference (NoEngine when the id is not a key)
    engines,              \* the DifficultyAdjuster objects created so far
    requests,             \* the POST requests in progress: position and locals
    posted                \* history variable: per player, the POSTs that recorded

traffic_vars == <<traffic, ticks>>
registry_vars == <<adjusters, engines, requests, posted>>

vars == <<ai, performance_history, trained, model, call, ret, recorded, fit_failures, rng,
          traffic_vars, registry_vars>>

(***************************************************************************)
(* Bounds of the model                                                      *)
(***************************************************************************)
MaxLevel == 2

\* tiers a caller may pass: the four recognised ones and an unrecognised one
TierInputs == {"easy", "medium", "hard", "expert", "insane"}
Levels == 1..MaxLevel

\* random.uniform(-10, 10), thousandths
NoiseDraws == {-10000, -5000, 0, 5000, 10000}
\* random.random() in [0, 1), hundredths
Draws == {0, 30, 50, 85, 99}
\* marks a random draw that the call never made
NotDrawn == -1

PlayerDistances == {-150, -100, 0, 1}

(***************************************************************************)
(* dict.get(key, default) on a dictionary whose keys may be absent          *)
(***************************************************************************)
Opt(S, canon) == {[present |-> TRUE, v |-> x] : x \in S} \cup {[present |-> FALSE, v |-> canon]}

Get(d, k, default) == IF d[k].present THEN d[k].v ELSE default

(***************************************************************************)
(* OpponentAI                                                               *)
(***************************************************************************)
_get_reaction_time(difficulty) ==
    CASE difficulty = "easy" -> 80
      [] difficulty = "medium" -> 50
      [] difficulty = "hard" -> 30
      [] difficulty = "expert" -> 15
      [] OTHER -> 50

_get_aggression(difficulty) ==
    CASE difficulty = "easy" -> 30
      [] difficulty = "medium" -> 50
      [] difficulty = "hard" -> 70
      [] difficulty = "expert" -> 90
      [] OTHER -> 50

\* the fallback of an unrecognised tier taken from 'easy' instead of 'medium'
_get_skill_level_EasyFallback(difficulty) ==
    CASE difficulty = "easy" -> 70
      [] difficulty = "medium" -> 85
      [] difficulty = "hard" -> 100
      [] difficulty = "expert" -> 120
      [] OTHER -> 70

\* the skill of 'hard' just below 1
_get_skill_level_HardBelowOne(difficulty) ==
    CASE difficulty = "easy" -> 70
      [] difficulty = "medium" -> 85
      [] difficulty = "hard" -> 95
      [] difficulty = "expert" -> 120
      [] OTHER -> 85

_get_skill_level(difficulty) ==
    CASE difficulty = "easy" -> 70
      [] difficulty = "medium" -> 85
      [] difficulty = "hard" -> 100
      [] difficulty = "expert" -> 120
      [] OTHER -> 85

OpponentAI(difficulty, level) ==
    [difficulty |-> difficulty,
     level |-> level,
     base_speed |-> 100,
     reaction_time |-> _get_reaction_time(difficulty),
     aggression |-> _get_aggression(difficulty),
     skill_level |-> _get_skill_level(difficulty)]

\* the floor left out: the speed is returned as computed
SpeedFloor_Missing(speed) == speed

\* max(speed, 50), thousandths
SpeedFloor(speed) == IF speed > 50000 THEN speed ELSE 50000

\* the dampening applied from -100 on (<= for <)
SpeedBeforeNoise_DampenAtHundred(self, obstacles_nearby, player_distance) ==
    LET s0 == self.base_speed * self.skill_level * 10
        s1 == s0 + self.level * 5 * 1000
        s2 == IF obstacles_nearby THEN (s1 * 7) \div 10 ELSE s1
        s3 == IF player_distance > 0
              THEN (s2 * (500 + self.aggression)) \div 500
              ELSE IF player_distance <= -100 THEN (s2 * 9) \div 10 ELSE s2
    IN  s3

\* the speed before the noise is added (lines 51-64), thousandths
SpeedBeforeNoise(self, obstacles_nearby, player_distance) ==
    LET s0 == self.base_speed * self.skill_level * 10
        s1 == s0 + self.level * 5 * 1000
        s2 == IF obstacles_nearby THEN (s1 * 7) \div 10 ELSE s1
        s3 == IF player_distance > 0
              THEN (s2 * (500 + self.aggression)) \div 500
              ELSE IF player_distance < -100 THEN (s2 * 9) \div 10 ELSE s2
    IN  s3

calculate_speed(self, obstacles_nearby, player_distance, noise) ==
    SpeedFloor(SpeedBeforeNoise(self, obstacles_nearby, player_distance) + noise)

GameStates ==
    [obstacle_ahead_distance : Opt({50, 100}, 0),
     obstacle_left : Opt(BOOLEAN, FALSE),
     obstacle_right : Opt(BOOLEAN, FALSE),
     nitro_available : Opt({50, 51}, 0),
     clear_path : Opt(BOOLEAN, FALSE)]

\* lines 81-90: the obstacle step
ObstacleStep(game_state) ==
    LET none == [accelerate |-> FALSE, brake |-> FALSE, turn_left |-> FALSE,
                 turn_right |-> FALSE, use_nitro |-> FALSE]
    IN  IF game_state.obstacle_ahead_distance.present
           /\ game_state.obstacle_ahead_distance.v < 100
        THEN IF Get(game_state, "obstacle_left", FALSE)
             THEN [none EXCEPT !.turn_right = TRUE]
             ELSE IF Get(game_state, "obstacle_right", FALSE)
                  THEN [none EXCEPT !.turn_left = TRUE]
                  ELSE [none EXCEPT !.brake = TRUE]
        ELSE [none EXCEPT !.accelerate = TRUE]

\* the nitro threshold met at exactly 50 (>= for >)
NitroDrawn_AtFifty(game_state) ==
    Get(game_state, "nitro_available", 0) >= 50 /\ Get(game_state, "clear_path", TRUE)

\* lines 93-94: the nitro draw is made only when both conditions before it hold
NitroDrawn(game_state) ==
    Get(game_state, "nitro_available", 0) > 50 /\ Get(game_state, "clear_path", TRUE)

\* the fumble triggered by a draw equal to skill_level (>= for >)
MistakeDrawn_AtSkill(self, rFumble) == rFumble >= self.skill_level

\* line 99: the second fumble draw is made only when the first exceeds skill_level
MistakeDrawn(self, rFumble) == rFumble > self.skill_level

\* the fumble setting brake without clearing accelerate
decide_action_BrakeKeepsAccelerate(self, game_state, rNitro, rFumble, rMistake) ==
    LET a1 == ObstacleStep(game_state)
        a2 == IF NitroDrawn(game_state) /\ rNitro < self.aggression
              THEN [a1 EXCEPT !.use_nitro = TRUE] ELSE a1
        a3 == IF MistakeDrawn(self, rFumble) /\ rMistake < 50
              THEN [a2 EXCEPT !.brake = TRUE] ELSE a2
    IN  a3

\* lines 71-105, the three draws given
decide_action(self, game_state, rNitro, rFumble, rMistake) ==
    LET a1 == ObstacleStep(game_state)
        a2 == IF NitroDrawn(game_state) /\ rNitro < self.aggression
              THEN [a1 EXCEPT !.use_nitro = TRUE] ELSE a1
        a3 == IF MistakeDrawn(self, rFumble) /\ rMistake < 50
              THEN [a2 EXCEPT !.brake = TRUE, !.accelerate = FALSE] ELSE a2
    IN  a3

(***************************************************************************)
(* OpponentAI.calculate_path.  A position is <<x, y>>, an obstacle is       *)
(* <<x, y, radius>>, all integers.  A distance is carried as its square, a  *)
(* fraction num/den: the code takes the square root of exactly this value.  *)
(***************************************************************************)
\* the safety margin added to the radius (line 153)
SafetyMargin == 20

\* the lateral and forward step of the alternatives (lines 126-127)
SideStep == 50

\* the projection parameter left unclamped: distance to the infinite line
ClampT_Unclamped(dot, len2) == dot

\* the projection parameter fixed at 1: the distance measured to the end point
ClampT_AlwaysEnd(dot, len2) == len2

\* max(0, min(1, dot / len2)) as the numerator over len2 (line 163)
ClampT(dot, len2) == IF dot < 0 THEN 0 ELSE IF dot > len2 THEN len2 ELSE dot

\* lines 155-168, squared.  With w = p - start, d = end - start, t = tn/len2:
\* |p - (start + t d)|^2 = (|w|^2 len2 - 2 tn (w.d) + tn^2) / len2
_point_to_line_distance(px, py, x1, y1, x2, y2) ==
    LET dx == x2 - x1
        dy == y2 - y1
        ww == (px - x1) * (px - x1) + (py - y1) * (py - y1)
        len2 == dx * dx + dy * dy
        dot == (px - x1) * dx + (py - y1) * dy
        tn == ClampT(dot, len2)
    IN  IF dx = 0 /\ dy = 0
        THEN [num |-> ww, den |-> 1]
        ELSE [num |-> ww * len2 - 2 * tn * dot + tn * tn, den |-> len2]

\* distance < limit, for the distance whose square is d2
DistanceBelow(d2, limit) == limit > 0 /\ d2.num < limit * limit * d2.den

\* lines 141-153
_intersects_obstacle(start, end, obstacle) ==
    DistanceBelow(_point_to_line_distance(obstacle[1], obstacle[2],
                                          start[1], start[2], end[1], end[2]),
                  obstacle[3] + SafetyMargin)

\* the loops of lines 115-118 and 132-135: no obstacle intersects start->end
PathClear(start, end, obstacles) ==
    \A i \in 1..Len(obstacles) : ~_intersects_obstacle(start, end, obstacles[i])

\* lines 125-128
alternative_positions(current_position) ==
    << <<current_position[1] - SideStep, current_position[2] + SideStep>>,
       <<current_position[1] + SideStep, current_position[2] + SideStep>> >>

\* the direct path taken as clear only when some obstacle was tested
calculate_path_ClearNeedsObstacle(current_position, target_position, obstacles) ==
    LET alts == alternative_positions(current_position)
    IN  IF obstacles # <<>> /\ PathClear(current_position, target_position, obstacles)
        THEN target_position
        ELSE IF PathClear(current_position, alts[1], obstacles) THEN alts[1]
        ELSE IF PathClear(current_position, alts[2], obstacles) THEN alts[2]
        ELSE current_position

\* the right alternative tried before the left one
calculate_path_RightFirst(current_position, target_position, obstacles) ==
    LET alts == alternative_positions(current_position)
    IN  IF PathClear(current_position, target_position, obstacles)
        THEN target_position
        ELSE IF PathClear(current_position, alts[2], obstacles) THEN alts[2]
        ELSE IF PathClear(current_position, alts[1], obstacles) THEN alts[1]
        ELSE current_position

\* the target returned when nothing is clear
calculate_path_FallbackTarget(current_position, target_position, obstacles) ==
    LET alts == alternative_positions(current_position)
    IN  IF PathClear(current_position, target_position, obstacles)
        THEN target_position
        ELSE IF PathClear(current_position, alts[1], obstacles) THEN alts[1]
        ELSE IF PathClear(current_position, alts[2], obstacles) THEN alts[2]
        ELSE target_position

\* lines 107-139
calculate_path(current_position, target_position, obstacles) ==
    LET alts == alternative_positions(current_position)
    IN  IF PathClear(current_position, target_position, obstacles)
        THEN target_position
        ELSE IF PathClear(current_position, alts[1], obstacles) THEN alts[1]
        ELSE IF PathClear(current_position, alts[2], obstacles) THEN alts[2]
        ELSE current_position

(***************************************************************************)
(* DifficultyAdjuster                                                       *)
(*                                                                          *)
(* A performance record is a dictionary; the model keeps the keys the       *)
(* adjuster reads.  car_speed is a JSON value that need not be a number     *)
(* (the request body is stored as received): Number(x) is the number x,     *)
(* NotANumber a value such as a string.                                     *)
(***************************************************************************)
Number(x) == [num |-> TRUE, v |-> x]
NotANumber == [num |-> FALSE, v |-> 0]

PerformanceRecord(won, collisions, level, car_speed) ==
    [won |-> won, collisions |-> collisions, level |-> level, car_speed |-> car_speed]

\* the history cap (lines 183-185)
HistoryCap == 10

\* the newest record dropped instead of the oldest (pop() for pop(0))
record_performance_PopNewest(history, performance_data) ==
    LET appended == Append(history, performance_data)
    IN  IF Len(appended) > HistoryCap
        THEN SubSeq(appended, 1, Len(appended) - 1)
        ELSE appended

\* two records dropped beyond the cap
record_performance_DropsTwo(history, performance_data) ==
    LET appended == Append(history, performance_data)
    IN  IF Len(appended) > HistoryCap THEN Tail(Tail(appended)) ELSE appended

\* lines 179-185
record_performance(history, performance_data) ==
    LET appended == Append(history, performance_data)
    IN  IF Len(appended) > HistoryCap THEN Tail(appended) ELSE appended

RECURSIVE SumOver(_, _)
SumOver(xs, i) == IF i = 0 THEN 0 ELSE xs[i] + SumOver(xs, i - 1)

\* sum of a sequence of numbers
Sum(xs) == SumOver(xs, Len(xs))

\* a bool averaged by np.mean counts as 0 or 1
AsNumber(b) == IF b THEN 1 ELSE 0

\* np.mean(xs) > num/den and np.mean(xs) < num/den, for a non-empty xs
MeanAbove(xs, num, den) == Sum(xs) * den > num * Len(xs)
MeanBelow(xs, num, den) == Sum(xs) * den < num * Len(xs)

\* the minimum history of calculate_difficulty (line 189)
MinDifficultyHistory == 3

\* a fourth tier recommended to a player who wins everything without a collision
DecisionLogic_ExpertTier(wons, collisions) ==
    IF MeanAbove(wons, 9, 10) /\ MeanBelow(collisions, 1, 1) THEN "expert"
    ELSE IF MeanAbove(wons, 8, 10) /\ MeanBelow(collisions, 2, 1) THEN "hard"
    ELSE IF MeanAbove(wons, 6, 10) /\ MeanBelow(collisions, 3, 1) THEN "medium"
    ELSE IF MeanBelow(wons, 4, 10) \/ MeanAbove(collisions, 5, 1) THEN "easy"
    ELSE "medium"

\* the thresholds of the decision logic, lines 198-205, given the two lists
DecisionLogic(wons, collisions) ==
    IF MeanAbove(wons, 8, 10) /\ MeanBelow(collisions, 2, 1) THEN "hard"
    ELSE IF MeanAbove(wons, 6, 10) /\ MeanBelow(collisions, 3, 1) THEN "medium"
    ELSE IF MeanBelow(wons, 4, 10) \/ MeanAbove(collisions, 5, 1) THEN "easy"
    ELSE "medium"

\* the minimum history left out (any non-empty history is averaged)
calculate_difficulty_NoMinimum(history) ==
    IF Len(history) < 1
    THEN "medium"
    ELSE DecisionLogic([i \in 1..Len(history) |-> AsNumber(history[i].won)],
                       [i \in 1..Len(history) |-> history[i].collisions])

\* the last n elements of a sequence (all of it when it is shorter)
LastN(xs, n) == IF Len(xs) <= n THEN xs ELSE SubSeq(xs, Len(xs) - n + 1, Len(xs))

\* the averages taken over the 5 most recent records, as get_recommendations does
calculate_difficulty_RecentWindow(history) ==
    IF Len(history) < MinDifficultyHistory
    THEN "medium"
    ELSE LET recent == LastN(history, 5)
         IN  DecisionLogic([i \in 1..Len(recent) |-> AsNumber(recent[i].won)],
                           [i \in 1..Len(recent) |-> recent[i].collisions])

calculate_difficulty(history) ==
    IF Len(history) < MinDifficultyHistory
    THEN "medium"
    ELSE DecisionLogic([i \in 1..Len(history) |-> AsNumber(history[i].won)],
                       [i \in 1..Len(history) |-> history[i].collisions])

\* training started one record early
MinTrainingHistory_OneLess == 5 - 1

\* the minimum history of training (lines 209, 230)
MinTrainingHistory == 5

\* LinearRegression(): the unfitted estimator.  A fitted one predicts
\* (intercept_num + coef_num * level) / den.
LinearRegression == [fitted |-> FALSE, coef_num |-> 0, intercept_num |-> 0, den |-> 1]

\* model.fit(X, y) raises (ValueError) when a feature is not a finite number
FitRaises(history) == \E i \in 1..Len(history) : ~history[i].car_speed.num

\* model.fit(X, y), lines 237-254, on rows whose features are numbers.  The
\* columns car_speed, car_handling, car_acceleration are constant over the
\* rows, so ordinary least squares (minimum norm) gives them coefficient 0
\* and the fit is the regression of the label on level:
\*   coef = (n Sxy - Sx Sy) / (n Sxx - Sx^2),  intercept = (Sy - coef Sx) / n.
Fit(history) ==
    LET n == Len(history)
        x == [i \in 1..n |-> history[i].level]
        y == [i \in 1..n |-> AsNumber(history[i].won)]
        Sx == Sum(x)
        Sy == Sum(y)
        Sxx == Sum([i \in 1..n |-> x[i] * x[i]])
        Sxy == Sum([i \in 1..n |-> x[i] * y[i]])
        D == n * Sxx - Sx * Sx
        a == n * Sxy - Sx * Sy
    IN  IF D = 0
        THEN [fitted |-> TRUE, coef_num |-> 0, intercept_num |-> Sy, den |-> n]
        ELSE [fitted |-> TRUE, coef_num |-> a * n, intercept_num |-> Sy * D - a * Sx,
              den |-> n * D]

\* the except branch setting trained instead of clearing it
_train_model_TrainedOnFailure(history, m) ==
    IF Len(history) < MinTrainingHistory
    THEN [trained |-> FALSE, model |-> m, fit |-> "none"]
    ELSE IF FitRaises(history)
         THEN [trained |-> TRUE, model |-> m, fit |-> "failed"]
         ELSE [trained |-> TRUE, model |-> Fit(history), fit |-> "fitted"]

\* _train_model: the adjuster's <<trained, model>> after the call, and what
\* became of the fit ("none" when the early return of line 231 is taken)
_train_model(history, m) ==
    IF Len(history) < MinTrainingHistory
    THEN [trained |-> FALSE, model |-> m, fit |-> "none"]
    ELSE IF FitRaises(history)
         THEN [trained |-> FALSE, model |-> m, fit |-> "failed"]
         ELSE [trained |-> TRUE, model |-> Fit(history), fit |-> "fitted"]

\* model.predict(features)[0], thousandths
Predict(m, level) == (1000 * (m.intercept_num + m.coef_num * level)) \div m.den

\* the clamp left out: the raw prediction is returned
Clamp_Missing(p) == p

\* max(0, min(1, win_probability)), thousandths
Clamp(p) == IF p < 0 THEN 0 ELSE IF p > 1000 THEN 1000 ELSE p

\* model.predict raises (ValueError) when a feature is not a finite number
PredictRaises(car_stats) == ~Get(car_stats, "speed", Number(100)).num

\* the training condition of line 209 without the test of the trained flag:
\* the model is refitted at every prediction
ShouldTrain_Always(history, isTrained) == Len(history) >= MinTrainingHistory

\* line 209
ShouldTrain(history, isTrained) == ~isTrained /\ Len(history) >= MinTrainingHistory

\* predict_performance: the adjuster after the call and the call's outcome
predict_performance(history, isTrained, m, level, car_stats) ==
    LET t == IF ShouldTrain(history, isTrained)
             THEN _train_model(history, m)
             ELSE [trained |-> isTrained, model |-> m, fit |-> "none"]
    IN  [trained |-> t.trained, model |-> t.model, fit |-> t.fit,
         raised |-> t.trained /\ PredictRaises(car_stats),
         value |-> IF t.trained THEN Clamp(Predict(t.model, level)) ELSE 500]

(***************************************************************************)
(* Specification of one OpponentAI instance                                 *)
(***************************************************************************)
\* no traffic is held, no player is known, no request is in progress
NoTraffic == traffic = <<>> /\ ticks = 0

NoRegistry ==
    /\ adjusters = <<>>
    /\ engines = <<>>
    /\ requests = <<>>
    /\ posted = <<>>

NoAdjuster ==
    /\ performance_history = <<>>
    /\ trained = FALSE
    /\ model = LinearRegression
    /\ recorded = <<>>
    /\ fit_failures = 0

InitOpponent ==
    /\ ai \in {OpponentAI(d, l) : d \in TierInputs, l \in Levels}
    /\ call = [op |-> "none"]
    /\ ret = "none"
    /\ NoAdjuster
    /\ NoTraffic
    /\ NoRegistry
    /\ rng = 0

\* a call is made when no call is in progress; Return hands its result to the caller
Idle == call.op = "none"

Return ==
    /\ ~Idle
    /\ call' = [op |-> "none"]
    /\ ret' = "none"
    /\ UNCHANGED <<registry_vars, traffic_vars, rng, ai, performance_history, trained, model, recorded, fit_failures>>

CallSpeed ==
    /\ Idle
    /\ \E o \in BOOLEAN, pd \in PlayerDistances, n \in NoiseDraws :
        /\ call' = [op |-> "calculate_speed", obstacles_nearby |-> o,
                    player_distance |-> pd, noise |-> n]
        /\ ret' = calculate_speed(ai, o, pd, n)
        /\ UNCHANGED <<registry_vars, traffic_vars, rng, ai, performance_history, trained, model, recorded, fit_failures>>

CallAction ==
    /\ Idle
    /\ \E gs \in GameStates, rN \in Draws \cup {NotDrawn}, rF \in Draws,
          rM \in Draws \cup {NotDrawn} :
        /\ (rN = NotDrawn) <=> ~NitroDrawn(gs)
        /\ (rM = NotDrawn) <=> ~MistakeDrawn(ai, rF)
        /\ call' = [op |-> "decide_action", game_state |-> gs,
                    rNitro |-> rN, rFumble |-> rF, rMistake |-> rM]
        /\ ret' = decide_action(ai, gs, rN, rF, rM)
        /\ UNCHANGED <<registry_vars, traffic_vars, rng, ai, performance_history, trained, model, recorded, fit_failures>>

NextOpponent == CallSpeed \/ CallAction \/ Return

SpecOpponent == InitOpponent /\ [][NextOpponent]_vars

(***************************************************************************)
(* Specifications of one DifficultyAdjuster instance                        *)
(***************************************************************************)
\* how many records a caller passes to record_performance in one run
MaxRecorded == 11
\* the same for the specifications of a young adjuster
MaxEarly == 6
\* fit_failures stops counting here
FailuresCounted == 2

\* the records a caller passes: a lost race at level 1, a won race at level 2,
\* and a won race whose car_speed is not a number
LostRace == PerformanceRecord(FALSE, 6, 1, Number(100))
WonRace == PerformanceRecord(TRUE, 0, 2, Number(100))
MalformedRace == PerformanceRecord(TRUE, 0, 1, NotANumber)

CollisionCounts == {0, 6}

\* the level and car_stats a caller passes to predict_performance
PredictLevels == {0, 1, 3}
CarStats == [speed : Opt({Number(150), NotANumber}, Number(0))]

InitAdjuster ==
    /\ ai = OpponentAI("medium", 1)
    /\ call = [op |-> "none"]
    /\ ret = "none"
    /\ NoAdjuster
    /\ NoTraffic
    /\ NoRegistry
    /\ rng = 0

Record(performance_data) ==
    /\ Idle
    /\ performance_history' = record_performance(performance_history, performance_data)
    /\ recorded' = Append(recorded, performance_data)
    /\ UNCHANGED <<registry_vars, traffic_vars, rng, ai, trained, model, call, ret, fit_failures>>

CallPredict ==
    /\ Idle
    /\ \E level \in PredictLevels, car_stats \in CarStats :
        LET out == predict_performance(performance_history, trained, model, level, car_stats)
        IN  /\ trained' = out.trained
            /\ model' = out.model
            /\ call' = [op |-> "predict_performance", level |-> level,
                        car_stats |-> car_stats, fit |-> out.fit, raised |-> out.raised]
            /\ ret' = IF out.raised THEN "ValueError" ELSE out.value
            /\ fit_failures' = IF out.fit = "failed" /\ fit_failures < FailuresCounted
                               THEN fit_failures + 1 ELSE fit_failures
            /\ UNCHANGED <<registry_vars, traffic_vars, rng, ai, performance_history, recorded>>

CallDifficulty ==
    /\ Idle
    /\ call' = [op |-> "calculate_difficulty"]
    /\ ret' = calculate_difficulty(performance_history)
    /\ UNCHANGED <<registry_vars, traffic_vars, rng, ai, performance_history, trained, model, recorded, fit_failures>>

\* a long-lived adjuster fed well-formed and malformed records
RecordRace ==
    /\ Len(recorded) < MaxRecorded
    /\ \E r \in {WonRace, MalformedRace} : Record(r)

NextAdjuster == RecordRace \/ CallPredict \/ CallDifficulty \/ Return

SpecAdjuster == InitAdjuster /\ [][NextAdjuster]_vars

\* a young adjuster fed wins, losses and malformed records, and asked to predict
RecordEarly ==
    /\ Len(recorded) < MaxEarly
    /\ \E r \in {LostRace, WonRace, MalformedRace} : Record(r)

NextPredict == RecordEarly \/ CallPredict \/ Return

SpecPredict == InitAdjuster /\ [][NextPredict]_vars

\* a young adjuster fed every mix of outcome and collision count, and asked
\* for a difficulty
RecordOutcome ==
    /\ Len(recorded) < MaxEarly
    /\ \E won \in BOOLEAN, collisions \in CollisionCounts :
          Record(PerformanceRecord(won, collisions, 1, Number(100)))

NextDifficulty == RecordOutcome \/ CallDifficulty \/ Return

SpecDifficulty == InitAdjuster /\ [][NextDifficulty]_vars

(***************************************************************************)
(* DifficultyAdjuster.get_recommendations                                   *)
(***************************************************************************)
PlayMore == "Play more races to get personalized recommendations"
AvoidCollisions == "Try to avoid collisions by improving your steering control"
UseNitro == "Use nitro more strategically to gain speed advantage"
UpgradeSpeed == "Upgrade your car's speed for better performance"
ImproveHandling == "Improve your car's handling for better control"
KeepUp == "Keep up the great work!"

\* a record as get_recommendations reads it: nitro_used may be missing
RaceRecord(won, collisions, nitro_used) ==
    [won |-> won, collisions |-> collisions, nitro_used |-> nitro_used]

\* the minimum history of get_recommendations (line 264)
MinRecommendHistory == 2

\* a window one record longer
RecentWindow_Six == 5 + 1

\* the window of line 268
RecentWindow == 5

\* the empty list returned as it is
OrDefault_Missing(recommendations) == recommendations

\* line 286
OrDefault(recommendations) ==
    IF recommendations = <<>> THEN <<KeepUp>> ELSE recommendations

\* lines 260-286; player_stats is not used
get_recommendations(history, car_stats) ==
    IF Len(history) < MinRecommendHistory
    THEN <<PlayMore>>
    ELSE LET recent == LastN(history, RecentWindow)
             collisions == [i \in 1..Len(recent) |-> recent[i].collisions]
             nitro == [i \in 1..Len(recent) |-> Get(recent[i], "nitro_used", 0)]
             wons == [i \in 1..Len(recent) |-> AsNumber(recent[i].won)]
             r1 == IF MeanAbove(collisions, 3, 1) THEN <<AvoidCollisions>> ELSE <<>>
             r2 == IF MeanBelow(nitro, 30, 1) THEN <<UseNitro>> ELSE <<>>
             r3 == IF MeanBelow(wons, 1, 2) /\ Get(car_stats, "speed", 100) < 150
                   THEN <<UpgradeSpeed>> ELSE <<>>
             r4 == IF MeanBelow(wons, 1, 2) /\ Get(car_stats, "handling", 50) < 70
                   THEN <<ImproveHandling>> ELSE <<>>
         IN  OrDefault(r1 \o r2 \o r3 \o r4)

(***************************************************************************)
(* Specification of an adjuster asked for recommendations                   *)
(***************************************************************************)
CleanWin == RaceRecord(TRUE, 0, [present |-> TRUE, v |-> 60])
CleanLoss == RaceRecord(FALSE, 0, [present |-> TRUE, v |-> 60])
CrashWin == RaceRecord(TRUE, 6, [present |-> TRUE, v |-> 60])
NoNitroWin == RaceRecord(TRUE, 0, [present |-> FALSE, v |-> 0])

UpgradeStats == [speed : Opt({140, 150}, 100), handling : Opt({69, 70}, 50)]

RecordKinds == {CleanWin, CleanLoss, CrashWin, NoNitroWin}

\* how many older records a second engine may hold before the shared ones
MaxOlder == 1

RecordRecent ==
    /\ Len(recorded) < MaxEarly
    /\ \E r \in RecordKinds : Record(r)

CallRecommend ==
    /\ Idle
    /\ \E car_stats \in UpgradeStats :
        /\ call' = [op |-> "get_recommendations", car_stats |-> car_stats]
        /\ ret' = get_recommendations(performance_history, car_stats)
        /\ UNCHANGED <<registry_vars, traffic_vars, rng, ai, performance_history, trained, model, recorded, fit_failures>>

NextRecommend == RecordRecent \/ CallRecommend \/ Return

SpecRecommend == InitAdjuster /\ [][NextRecommend]_vars

(***************************************************************************)
(* Specification of one adjuster on which all four methods are called       *)
(***************************************************************************)
\* complete records: every key that some method reads is there
CompleteWin ==
    [won |-> TRUE, collisions |-> 0, level |-> 1, car_speed |-> Number(100),
     nitro_used |-> [present |-> TRUE, v |-> 60]]
CompleteLoss ==
    [won |-> FALSE, collisions |-> 6, level |-> 2, car_speed |-> Number(100),
     nitro_used |-> [present |-> FALSE, v |-> 0]]

RecordComplete ==
    /\ Len(recorded) < MaxRecorded
    /\ \E r \in {CompleteWin, CompleteLoss} : Record(r)

NextEngine == RecordComplete \/ CallDifficulty \/ CallPredict \/ CallRecommend \/ Return

SpecEngine == InitAdjuster /\ [][NextEngine]_vars

(***************************************************************************)
(* Specification of the path planner                                        *)
(***************************************************************************)
\* how many obstacles a caller passes
MaxObstacles == 3

Currents == {<<0, 0>>, <<0, -50>>}
Targets == {<<100, 0>>, <<0, 0>>, <<0, 100>>, <<-50, 50>>}

\* obstacles on the direct segment, on each alternative, at the start, at
\* exactly radius + 20 from a segment, beyond an end point, and of no extent
ObstacleInputs ==
    {<<50, 0, 10>>, <<-50, 50, 10>>, <<50, 50, 10>>, <<0, 0, 5>>,
     <<0, 30, 10>>, <<130, 0, 10>>, <<50, 0, -20>>}

RECURSIVE ListsUpTo(_, _)
ListsUpTo(S, n) ==
    IF n = 0 THEN {<<>>}
    ELSE LET shorter == ListsUpTo(S, n - 1)
         IN  shorter \cup {Append(l, x) : l \in shorter, x \in S}

CallPath ==
    /\ Idle
    /\ \E c \in Currents, t \in Targets, obstacles \in ListsUpTo(ObstacleInputs, MaxObstacles) :
        /\ call' = [op |-> "calculate_path", current_position |-> c,
                    target_position |-> t, obstacles |-> obstacles]
        /\ ret' = calculate_path(c, t, obstacles)
        /\ UNCHANGED <<registry_vars, traffic_vars, rng, ai, performance_history, trained, model, recorded, fit_failures>>

CallIntersects ==
    /\ Idle
    /\ \E start \in Currents, end \in Targets \cup {<<130, 0>>}, obstacle \in ObstacleInputs :
        /\ call' = [op |-> "_intersects_obstacle", start |-> start, end |-> end,
                    obstacle |-> obstacle]
        /\ ret' = _intersects_obstacle(start, end, obstacle)
        /\ UNCHANGED <<registry_vars, traffic_vars, rng, ai, performance_history, trained, model, recorded, fit_failures>>

NextPath == CallPath \/ CallIntersects \/ Return

SpecPath == InitOpponent /\ [][NextPath]_vars

(***************************************************************************)
(* Module random.  Every draw of the program goes to the one generator of   *)
(* the process: a draw advances its state and returns a value determined by *)
(* the new state.  The generator is a full-period congruential stream of    *)
(* StreamModulus states whose unit value random() takes UnitSteps levels in *)
(* [0, 1); random.seed puts it in any state.                                *)
(***************************************************************************)
StreamModulus == 200
UnitSteps == 20

random_advance(s) == (141 * s + 67) % StreamModulus

\* random.random() in units of 1/UnitSteps
Unit(s) == s \div (StreamModulus \div UnitSteps)

\* random.random() in hundredths and in thousandths
random_hundredths(s) == (100 * Unit(s)) \div UnitSteps
random_thousandths(s) == (1000 * Unit(s)) \div UnitSteps

\* random.uniform(a, b) = a + (b - a) * random()
random_uniform(a, b, s) == a + ((b - a) * Unit(s)) \div UnitSteps

\* random.randint(a, b), both ends included
random_randint(a, b, s) == a + ((b - a + 1) * Unit(s)) \div UnitSteps

\* random.choice(seq)
random_choice(seq, s) == seq[1 + (Len(seq) * Unit(s)) \div UnitSteps]

\* lines 66-69 with the draw of line 67 taken from the generator in state s
calculate_speed_drawing(self, obstacles_nearby, player_distance, s) ==
    LET s1 == random_advance(s)
        noise == random_uniform(-10000, 10000, s1)
    IN  [value |-> calculate_speed(self, obstacles_nearby, player_distance, noise),
         noise |-> noise, rng |-> s1]

\* lines 92-103 with the draws of lines 95, 99 and 101 taken from the generator
decide_action_drawing(self, game_state, s) ==
    LET s1 == IF NitroDrawn(game_state) THEN random_advance(s) ELSE s
        rN == IF NitroDrawn(game_state) THEN random_hundredths(s1) ELSE NotDrawn
        s2 == random_advance(s1)
        rF == random_hundredths(s2)
        s3 == IF MistakeDrawn(self, rF) THEN random_advance(s2) ELSE s2
        rM == IF MistakeDrawn(self, rF) THEN random_hundredths(s3) ELSE NotDrawn
    IN  [value |-> decide_action(self, game_state, rN, rF, rM),
         rNitro |-> rN, rFumble |-> rF, rMistake |-> rM, rng |-> s3]

(***************************************************************************)
(* Specification of an opponent next to the other users of the generator    *)
(***************************************************************************)
Seeds == 0..(StreamModulus - 1)

InitRandom ==
    /\ ai \in {OpponentAI("medium", 1), OpponentAI("expert", 2)}
    /\ call = [op |-> "none"]
    /\ ret = "none"
    /\ NoAdjuster
    /\ NoTraffic
    /\ NoRegistry
    /\ rng \in Seeds

DrawSpeed ==
    /\ Idle
    /\ \E o \in BOOLEAN, pd \in PlayerDistances :
        LET r == calculate_speed_drawing(ai, o, pd, rng)
        IN  /\ call' = [op |-> "calculate_speed", obstacles_nearby |-> o,
                        player_distance |-> pd, noise |-> r.noise]
            /\ ret' = r.value
            /\ rng' = r.rng
    /\ UNCHANGED <<registry_vars, traffic_vars, ai, performance_history, trained, model, recorded, fit_failures>>

DrawAction ==
    /\ Idle
    /\ \E gs \in GameStates :
        LET r == decide_action_drawing(ai, gs, rng)
        IN  /\ call' = [op |-> "decide_action", game_state |-> gs,
                        rNitro |-> r.rNitro, rFumble |-> r.rFumble,
                        rMistake |-> r.rMistake]
            /\ ret' = r.value
            /\ rng' = r.rng
    /\ UNCHANGED <<registry_vars, traffic_vars, ai, performance_history, trained, model, recorded, fit_failures>>

\* another component draws once: another opponent's noise (views.py line 62),
\* a traffic vehicle's position or lane change
OtherDraw ==
    /\ Idle
    /\ rng' = random_advance(rng)
    /\ UNCHANGED <<registry_vars, traffic_vars, ai, performance_history, trained, model, call, ret, recorded,
                   fit_failures>>

NextRandom == DrawSpeed \/ DrawAction \/ OtherDraw \/ Return

SpecRandom == InitRandom /\ [][NextRandom]_vars

(***************************************************************************)
(* TrafficGenerator.  Positions and speeds are in thousandths, delta_time   *)
(* in thousandths of a second; a vehicle id f'traffic_{i}' is the pair      *)
(* <<"traffic_", i>>.                                                       *)
(***************************************************************************)
\* lines 294-298
traffic_patterns ==
    [low |-> [vehicle_count |-> 5, speed_variance |-> 20],
     medium |-> [vehicle_count |-> 10, speed_variance |-> 30],
     high |-> [vehicle_count |-> 15, speed_variance |-> 40]]

\* line 302: traffic_patterns.get(density, traffic_patterns['medium'])
PatternOf(density) ==
    IF density \in DOMAIN traffic_patterns THEN traffic_patterns[density]
    ELSE traffic_patterns.medium

\* three lanes numbered with one lane too many (randint includes its end)
LaneDrawn_FourLanes(s) == random_randint(0, 3, s)

\* line 308
LaneDrawn(s) == random_randint(0, 2, s)

\* lines 306-316: vehicle i, its five draws taken in order from state s
NewVehicle(i, track_length, variance, s) ==
    LET s1 == random_advance(s)
        s2 == random_advance(s1)
        s3 == random_advance(s2)
        s4 == random_advance(s3)
        s5 == random_advance(s4)
    IN  [vehicle |->
            [id |-> <<"traffic_", i>>,
             position |-> random_uniform(0, 1000 * track_length, s1),
             speed |-> random_uniform(60000, 100000, s2)
                         + random_uniform(-1000 * variance, 1000 * variance, s3),
             lane |-> LaneDrawn(s4),
             type |-> random_choice(<<"car", "truck", "bus">>, s5)],
         rng |-> s5]

\* the loop of lines 305-317 from vehicle i on
RECURSIVE GenerateFrom(_, _, _, _, _, _)
GenerateFrom(i, count, track_length, variance, vehicles, s) ==
    IF i >= count THEN [vehicles |-> vehicles, rng |-> s]
    ELSE LET v == NewVehicle(i, track_length, variance, s)
         IN  GenerateFrom(i + 1, count, track_length, variance,
                          Append(vehicles, v.vehicle), v.rng)

\* lines 300-319; player_position is not used
generate_traffic(density, track_length, s) ==
    LET pattern == PatternOf(density)
    IN  GenerateFrom(0, pattern.vehicle_count, track_length,
                     pattern.speed_variance, <<>>, s)

\* the position advanced by the speed whatever delta_time is
Advance_IgnoresDelta(vehicle, delta_time) == vehicle.position + vehicle.speed

\* line 324: position += speed * delta_time
Advance(vehicle, delta_time) ==
    vehicle.position + (vehicle.speed * delta_time) \div 1000

\* line 327: random.random() < 0.01
LaneChangeFires(s) == random_thousandths(s) < 10

\* the clamp left out: the lane moves by the drawn step
ClampLane_Missing(lane) == lane

\* line 328
ClampLane(lane) == IF lane < 0 THEN 0 ELSE IF lane > 2 THEN 2 ELSE lane

\* lines 324-328 for one vehicle
UpdateVehicle(vehicle, delta_time, s) ==
    LET s1 == random_advance(s)
        s2 == random_advance(s1)
        moved == [vehicle EXCEPT !.position = Advance(vehicle, delta_time)]
    IN  IF LaneChangeFires(s1)
        THEN [vehicle |-> [moved EXCEPT !.lane = ClampLane(vehicle.lane
                                        + random_choice(<<-1, 1>>, s2))],
              fired |-> TRUE, rng |-> s2]
        ELSE [vehicle |-> moved, fired |-> FALSE, rng |-> s1]

\* the loop of lines 323-328 from vehicle i on; fired keeps, per vehicle,
\* whether its lane-change draw fired
RECURSIVE UpdateFrom(_, _, _, _, _)
UpdateFrom(i, vehicles, delta_time, fired, s) ==
    IF i > Len(vehicles) THEN [vehicles |-> vehicles, fired |-> fired, rng |-> s]
    ELSE LET u == UpdateVehicle(vehicles[i], delta_time, s)
         IN  UpdateFrom(i + 1, [vehicles EXCEPT ![i] = u.vehicle], delta_time,
                        Append(fired, u.fired), u.rng)

\* lines 321-330
update_traffic(vehicles, delta_time, s) == UpdateFrom(1, vehicles, delta_time, <<>>, s)

(***************************************************************************)
(* Specification of the traffic end points (views.py lines 143-177)         *)
(***************************************************************************)
\* how many vehicles a client sends to be updated
MaxVehicles == 2

Densities == {"low", "medium", "high", "rush"}
TrackLengths == {5000, 1000, 0, -1000}
DeltaTimes == {16, 1000, 0}

VehicleInputs ==
    {[id |-> <<"traffic_", 0>>, position |-> 0, speed |-> 80000, lane |-> 1,
      type |-> "car"],
     [id |-> <<"traffic_", 1>>, position |-> 4999000, speed |-> 62500, lane |-> 0,
      type |-> "truck"],
     [id |-> <<"traffic_", 2>>, position |-> 2500000, speed |-> 100000, lane |-> 2,
      type |-> "bus"]}

InitTraffic ==
    /\ ai = OpponentAI("medium", 1)
    /\ call = [op |-> "none"]
    /\ ret = "none"
    /\ NoAdjuster
    /\ NoTraffic
    /\ NoRegistry
    /\ rng \in Seeds

CallGenerate ==
    /\ Idle
    /\ \E density \in Densities, track_length \in TrackLengths :
        LET r == generate_traffic(density, track_length, rng)
        IN  /\ call' = [op |-> "generate_traffic", density |-> density,
                        track_length |-> track_length]
            /\ ret' = r.vehicles
            /\ rng' = r.rng
    /\ UNCHANGED <<registry_vars, traffic_vars, ai, performance_history, trained, model, recorded, fit_failures>>

CallUpdate ==
    /\ Idle
    /\ \E vehicles \in ListsUpTo(VehicleInputs, MaxVehicles), delta_time \in DeltaTimes :
        LET r == update_traffic(vehicles, delta_time, rng)
        IN  /\ call' = [op |-> "update_traffic", vehicles |-> vehicles,
                        delta_time |-> delta_time, fired |-> r.fired]
            /\ ret' = r.vehicles
            /\ rng' = r.rng
    /\ UNCHANGED <<registry_vars, traffic_vars, ai, performance_history, trained, model, recorded, fit_failures>>

NextTraffic == CallGenerate \/ CallUpdate \/ Return

SpecTraffic == InitTraffic /\ [][NextTraffic]_vars

(***************************************************************************)
(* Specification of a client that generates traffic and sends it back to be *)
(* updated, frame after frame                                               *)
(***************************************************************************)
\* how many updates follow one generation
MaxTicks == 3

FrameTimes == {16, 1000}

GenerateHeld ==
    /\ Idle
    /\ \E density \in Densities, track_length \in {5000, 1000} :
        \E r \in {generate_traffic(density, track_length, rng)} :
            /\ call' = [op |-> "generate_traffic", density |-> density,
                        track_length |-> track_length]
            /\ ret' = r.vehicles
            /\ traffic' = r.vehicles
            /\ rng' = r.rng
    /\ ticks' = 0
    /\ UNCHANGED <<registry_vars, ai, performance_history, trained, model, recorded,
                   fit_failures>>

UpdateHeld ==
    /\ Idle
    /\ traffic # <<>>
    /\ ticks < MaxTicks
    /\ \E delta_time \in FrameTimes :
        \E r \in {update_traffic(traffic, delta_time, rng)} :
            /\ call' = [op |-> "update_traffic", vehicles |-> traffic,
                        delta_time |-> delta_time, fired |-> r.fired]
            /\ ret' = r.vehicles
            /\ traffic' = r.vehicles
            /\ rng' = r.rng
    /\ ticks' = ticks + 1
    /\ UNCHANGED <<registry_vars, ai, performance_history, trained, model, recorded,
                   fit_failures>>

NextTrafficLoop == GenerateHeld \/ UpdateHeld \/ Return

SpecTrafficLoop == InitTraffic /\ [][NextTrafficLoop]_vars

(***************************************************************************)
(* DifficultyAdjustmentView: the class attribute adjusters and the two      *)
(* handlers.  A dict is a function whose domain is its keys; an engine      *)
(* reference is an index into engines.                                      *)
(***************************************************************************)
HasKey(d, k) == k \in DOMAIN d

SetItem(d, k, v) == [q \in DOMAIN d \cup {k} |-> IF q = k THEN v ELSE d[q]]

\* DifficultyAdjuster(), lines 174-177
DifficultyAdjuster ==
    [performance_history |-> <<>>, trained |-> FALSE, model |-> LinearRegression]

\* a new player given the engine of the first player ever seen
GetOrCreate_OneForAll(adjs, engs, player_id) ==
    IF HasKey(adjs, player_id)
    THEN [adjusters |-> adjs, engines |-> engs, ref |-> adjs[player_id]]
    ELSE IF engs = <<>>
         THEN [adjusters |-> SetItem(adjs, player_id, 1),
               engines |-> <<DifficultyAdjuster>>, ref |-> 1]
         ELSE [adjusters |-> SetItem(adjs, player_id, 1), engines |-> engs, ref |-> 1]

\* views.py lines 97-100
GetOrCreate(adjs, engs, player_id) ==
    IF HasKey(adjs, player_id)
    THEN [adjusters |-> adjs, engines |-> engs, ref |-> adjs[player_id]]
    ELSE [adjusters |-> SetItem(adjs, player_id, Len(engs) + 1),
          engines |-> Append(engs, DifficultyAdjuster),
          ref |-> Len(engs) + 1]

\* request.data.get('car_stats', {}) of a request without car_stats, as
\* predict_performance and as get_recommendations read it
NoCarStats == [speed |-> [present |-> FALSE, v |-> Number(0)]]
NoUpgradeStats ==
    [speed |-> [present |-> FALSE, v |-> 100], handling |-> [present |-> FALSE, v |-> 50]]

\* `not player_id or not performance_data`, line 91: an empty id and an empty
\* dict are falsy
EmptyId == ""
EmptyData == [keys |-> {}]
Rejected(player_id, performance_data) ==
    player_id = EmptyId \/ performance_data = EmptyData

\* views.py lines 102-124 on the engine e: the engine afterwards and the
\* response (level is request.data.get('level', 1))
Serve(e, performance_data) ==
    LET h == record_performance(e.performance_history, performance_data)
        p == predict_performance(h, e.trained, e.model, 1, NoCarStats)
    IN  [engine |-> [performance_history |-> h, trained |-> p.trained, model |-> p.model],
         response |-> [status |-> 200,
                       recommended_difficulty |-> calculate_difficulty(h),
                       win_probability |-> p.value,
                       recommendations |-> get_recommendations(h, NoUpgradeStats),
                       performance_history_count |-> Len(h)]]

\* views.py lines 126-140
get(adjs, engs, player_id) ==
    IF ~HasKey(adjs, player_id)
    THEN [status |-> 200, recommended_difficulty |-> "medium",
          message |-> "No performance history yet"]
    ELSE LET h == engs[adjs[player_id]].performance_history
         IN  [status |-> 200, recommended_difficulty |-> calculate_difficulty(h),
              performance_history_count |-> Len(h)]

(***************************************************************************)
(* Specification of the difficulty end point serving one request at a time  *)
(***************************************************************************)
\* how many POSTs are recorded in all
MaxPosted == 11

Players == {"A", "B"}

\* what a client posts as performance_data
PostedWin == CompleteWin
PostedLoss == CompleteLoss

PostedBy(player_id) == IF HasKey(posted, player_id) THEN posted[player_id] ELSE 0

TotalPosted == PostedBy("A") + PostedBy("B")

InitRegistry ==
    /\ ai = OpponentAI("medium", 1)
    /\ call = [op |-> "none"]
    /\ ret = "none"
    /\ NoAdjuster
    /\ NoTraffic
    /\ NoRegistry
    /\ rng = 0

Post ==
    /\ Idle
    /\ TotalPosted < MaxPosted
    /\ \E player_id \in Players, performance_data \in {PostedWin, PostedLoss} :
        \E g \in {GetOrCreate(adjusters, engines, player_id)} :
            \E s \in {Serve(g.engines[g.ref], performance_data)} :
                /\ adjusters' = g.adjusters
                /\ engines' = [g.engines EXCEPT ![g.ref] = s.engine]
                /\ posted' = SetItem(posted, player_id, PostedBy(player_id) + 1)
                /\ call' = [op |-> "post", player_id |-> player_id,
                            performance_data |-> performance_data]
                /\ ret' = s.response
    /\ UNCHANGED <<requests, traffic_vars, rng, ai, performance_history, trained, model,
                   recorded, fit_failures>>

PostRejected ==
    /\ Idle
    /\ \E player_id \in Players \cup {EmptyId}, performance_data \in {PostedWin, EmptyData} :
        /\ Rejected(player_id, performance_data)
        /\ call' = [op |-> "post", player_id |-> player_id,
                    performance_data |-> performance_data]
        /\ ret' = [status |-> 400, error |-> "player_id and performance_data required"]
    /\ UNCHANGED <<registry_vars, traffic_vars, rng, ai, performance_history, trained,
                   model, recorded, fit_failures>>

GetDifficulty ==
    /\ Idle
    /\ \E player_id \in Players :
        /\ call' = [op |-> "get", player_id |-> player_id]
        /\ ret' = get(adjusters, engines, player_id)
    /\ UNCHANGED <<registry_vars, traffic_vars, rng, ai, performance_history, trained,
                   model, recorded, fit_failures>>

NextRegistry == Post \/ PostRejected \/ GetDifficulty \/ Return

SpecRegistry == InitRegistry /\ [][NextRegistry]_vars

(***************************************************************************)
(* Specification of the difficulty end point serving POSTs of one player in *)
(* concurrent threads.  The handler holds no lock, so a thread may be       *)
(* preempted between any two of its statements; a request is at the         *)
(* statement named by its pc and keeps its local variable adjuster.         *)
(***************************************************************************)
\* how many POSTs are in progress or completed
MaxRequests == 3

ThePlayer == "A"

StartPost ==
    /\ Len(requests) < MaxRequests
    /\ \E performance_data \in {PostedWin, PostedLoss} :
        requests' = Append(requests, [pc |-> "check", adjuster |-> 0,
                                      performance_data |-> performance_data])
    /\ UNCHANGED <<adjusters, engines, posted, traffic_vars, rng, ai, performance_history,
                   trained, model, call, ret, recorded, fit_failures>>

\* line 97: if player_id not in self.adjusters
CheckKey(i) ==
    /\ requests[i].pc = "check"
    /\ requests' = [requests EXCEPT ![i].pc =
                        IF HasKey(adjusters, ThePlayer) THEN "fetch" ELSE "create"]
    /\ UNCHANGED <<adjusters, engines, posted, traffic_vars, rng, ai, performance_history,
                   trained, model, call, ret, recorded, fit_failures>>

\* line 98: self.adjusters[player_id] = DifficultyAdjuster()
CreateEngine(i) ==
    /\ requests[i].pc = "create"
    /\ engines' = Append(engines, DifficultyAdjuster)
    /\ adjusters' = SetItem(adjusters, ThePlayer, Len(engines) + 1)
    /\ requests' = [requests EXCEPT ![i].pc = "fetch"]
    /\ UNCHANGED <<posted, traffic_vars, rng, ai, performance_history,
                   trained, model, call, ret, recorded, fit_failures>>

\* line 100: adjuster = self.adjusters[player_id]
FetchEngine(i) ==
    /\ requests[i].pc = "fetch"
    /\ requests' = [requests EXCEPT ![i].pc = "append",
                                    ![i].adjuster = adjusters[ThePlayer]]
    /\ UNCHANGED <<adjusters, engines, posted, traffic_vars, rng, ai, performance_history,
                   trained, model, call, ret, recorded, fit_failures>>

\* ai_models.py line 181: self.performance_history.append(performance_data)
AppendRecord(i) ==
    /\ requests[i].pc = "append"
    /\ engines' = [engines EXCEPT ![requests[i].adjuster].performance_history =
                        Append(@, requests[i].performance_data)]
    /\ requests' = [requests EXCEPT ![i].pc = "trim"]
    /\ UNCHANGED <<adjusters, posted, traffic_vars, rng, ai, performance_history,
                   trained, model, call, ret, recorded, fit_failures>>

\* ai_models.py lines 184-185: the oldest record popped beyond the cap
TrimHistory(i) ==
    /\ requests[i].pc = "trim"
    /\ engines' = [engines EXCEPT ![requests[i].adjuster].performance_history =
                        IF Len(@) > HistoryCap THEN Tail(@) ELSE @]
    /\ requests' = [requests EXCEPT ![i].pc = "respond"]
    /\ UNCHANGED <<adjusters, posted, traffic_vars, rng, ai, performance_history,
                   trained, model, call, ret, recorded, fit_failures>>

\* lines 106-124: the difficulty, the prediction (which may train the model),
\* the recommendations and the response
Respond(i) ==
    /\ requests[i].pc = "respond"
    /\ \E e \in {engines[requests[i].adjuster]} :
        \E p \in {predict_performance(e.performance_history, e.trained, e.model, 1,
                                      NoCarStats)} :
            engines' = [engines EXCEPT ![requests[i].adjuster] =
                            [e EXCEPT !.trained = p.trained, !.model = p.model]]
    /\ requests' = [requests EXCEPT ![i].pc = "done"]
    /\ posted' = SetItem(posted, ThePlayer, PostedBy(ThePlayer) + 1)
    /\ UNCHANGED <<adjusters, traffic_vars, rng, ai, performance_history,
                   trained, model, call, ret, recorded, fit_failures>>

NextConcurrent ==
    \/ StartPost
    \/ \E i \in 1..Len(requests) : CheckKey(i)
    \/ \E i \in 1..Len(requests) : CreateEngine(i)
    \/ \E i \in 1..Len(requests) : FetchEngine(i)
    \/ \E i \in 1..Len(requests) : AppendRecord(i)
    \/ \E i \in 1..Len(requests) : TrimHistory(i)
    \/ \E i \in 1..Len(requests) : Respond(i)

SpecConcurrent == InitRegistry /\ [][NextConcurrent]_vars

(***************************************************************************)
(* Claims about OpponentAI, checked under SpecOpponent                      *)
(***************************************************************************)
RecognisedTiers == {"easy", "medium", "hard", "expert"}

\* C1: for every tier (recognised or not), level >= 1, obstacles_nearby,
\* player_distance and noise draw in [-10, 10], calculate_speed returns a
\* value that is at least 50.
C1_SpeedNeverBelowFloor ==
    call.op = "calculate_speed" => ret >= 50000

\* C1 witness: a call whose computed speed plus noise fell below 50, so that
\* the floor is what was returned.
C1_Witness ==
    /\ call.op = "calculate_speed"
    /\ SpeedBeforeNoise(ai, call.obstacles_nearby, call.player_distance) + call.noise < 50000
    /\ ret = 50000

\* C9: an instance built with a tier outside {easy, medium, hard, expert} has
\* exactly medium's parameters (reaction_time 0.5, aggression 0.5, skill_level
\* 0.85), and with equal arguments and equal random draws its calculate_speed
\* and decide_action return what a 'medium' instance of the same level returns.
C9_UnknownTierIsMedium ==
    ai.difficulty \notin RecognisedTiers =>
        /\ ai.reaction_time = 50
        /\ ai.aggression = 50
        /\ ai.skill_level = 85
        /\ call.op = "calculate_speed" =>
               ret = calculate_speed(OpponentAI("medium", ai.level),
                                     call.obstacles_nearby, call.player_distance, call.noise)
        /\ call.op = "decide_action" =>
               ret = decide_action(OpponentAI("medium", ai.level), call.game_state,
                                   call.rNitro, call.rFumble, call.rMistake)

\* C9 witness: an instance of an unrecognised tier has decided an action in a
\* call where the nitro draw (against aggression) and both fumble draws
\* (against skill_level) were made.
C9_Witness ==
    /\ ai.difficulty \notin RecognisedTiers
    /\ call.op = "decide_action"
    /\ call.rNitro # NotDrawn
    /\ call.rMistake # NotDrawn
    /\ ret.brake

ObstacleNear(game_state) ==
    /\ game_state.obstacle_ahead_distance.present
    /\ game_state.obstacle_ahead_distance.v < 100

\* C10 (as claimed): with obstacle_ahead_distance < 100, turn_right is set only
\* when the left side is reported blocked and the right is not, turn_left only
\* when the right side is reported blocked and the left is not, and when both
\* sides are reported blocked the action brakes and sets no turn.
C10_SteersTowardOpenSide ==
    (call.op = "decide_action" /\ ObstacleNear(call.game_state)) =>
        LET left == Get(call.game_state, "obstacle_left", FALSE)
            right == Get(call.game_state, "obstacle_right", FALSE)
        IN  /\ ret.turn_right => (left /\ ~right)
            /\ ret.turn_left => (right /\ ~left)
            /\ (left /\ right) => (ret.brake /\ ~ret.turn_left /\ ~ret.turn_right)

(***************************************************************************)
(* Claims about DifficultyAdjuster                                          *)
(***************************************************************************)
\* C2: after n record_performance calls performance_history holds exactly the
\* last min(n, 10) records passed, oldest first; it never holds more than 10.
C2_HistoryIsLastTen ==
    LET n == Len(recorded)
        k == IF n < 10 THEN n ELSE 10
    IN  /\ Len(performance_history) <= 10
        /\ performance_history = SubSeq(recorded, n - k + 1, n)

\* C2 witness: 11 records were passed, the 1st differs from the 2nd, and the
\* history is the 2nd through 11th in their original order.
C2_Witness ==
    /\ Len(recorded) = 11
    /\ recorded[1] # recorded[2]
    /\ performance_history = SubSeq(recorded, 2, 11)

\* C3: calculate_difficulty returns 'medium' whenever the history holds fewer
\* than 3 records, whatever they contain.
C3_FewRecordsMedium ==
    (call.op = "calculate_difficulty" /\ Len(performance_history) < 3) => ret = "medium"

\* C3 witness: two flawless wins (which the thresholds alone would rate 'hard')
\* are in the history and calculate_difficulty returned 'medium'.
C3_Witness ==
    /\ call.op = "calculate_difficulty"
    /\ Len(performance_history) = 2
    /\ \A i \in 1..2 : performance_history[i].won /\ performance_history[i].collisions = 0
    /\ ret = "medium"

Wins(history) == Cardinality({i \in 1..Len(history) : history[i].won})
Collisions(history) == Sum([i \in 1..Len(history) |-> history[i].collisions])

\* C4: with at least 3 records, calculate_difficulty takes the win rate and the
\* mean collisions over the whole retained history and returns the first match
\* of: win rate > 0.8 and mean collisions < 2 -> 'hard'; win rate > 0.6 and
\* mean collisions < 3 -> 'medium'; win rate < 0.4 or mean collisions > 5 ->
\* 'easy'; otherwise 'medium'.  Every comparison is strict.
C4_ThresholdRules ==
    (call.op = "calculate_difficulty" /\ Len(performance_history) >= 3) =>
        LET n == Len(performance_history)
            w == Wins(performance_history)
            c == Collisions(performance_history)
        IN  ret = IF 10 * w > 8 * n /\ c < 2 * n THEN "hard"
                  ELSE IF 10 * w > 6 * n /\ c < 3 * n THEN "medium"
                  ELSE IF 10 * w < 4 * n \/ c > 5 * n THEN "easy"
                  ELSE "medium"

\* C4 witness: six records without collisions, five of them won and the newest
\* lost: the win rate over all six is above 0.8 (over the newest five it is
\* exactly 0.8), and calculate_difficulty returned 'hard'.
C4_Witness ==
    /\ call.op = "calculate_difficulty"
    /\ Len(performance_history) = 6
    /\ Wins(performance_history) = 5
    /\ ~performance_history[6].won
    /\ Collisions(performance_history) = 0
    /\ ret = "hard"

\* C5: every predict_performance call made while the history holds fewer than
\* 5 records returns exactly 0.5 and attempts no training.
C5_DefaultBelowFive ==
    (call.op = "predict_performance" /\ Len(performance_history) < 5) =>
        /\ ~call.raised
        /\ ret = 500
        /\ call.fit = "none"
        /\ ~trained

\* C5 witness: a prediction was asked with 4 records retained, for car stats
\* that are not numbers, and 0.5 was returned.
C5_Witness ==
    /\ call.op = "predict_performance"
    /\ Len(performance_history) = 4
    /\ call.car_stats.speed.present
    /\ ~call.car_stats.speed.v.num
    /\ ret = 500

PredictCalled == Idle /\ call'.op = "predict_performance"

\* C6: a predict_performance call made with at least 5 records and an
\* untrained model attempts the fit, and trained becomes true exactly when the
\* fit does not fail; a call with fewer than 5 records attempts none; once
\* trained is true it stays true, the model is never fitted again and never
\* changes, whatever is recorded or evicted afterwards.
C6_TrainsOnceStaysTrained ==
    [][/\ trained => (trained' /\ model' = model)
       /\ (trained /\ PredictCalled) => call'.fit = "none"
       /\ (~trained /\ PredictCalled /\ Len(performance_history) >= 5) =>
              /\ call'.fit # "none"
              /\ trained' <=> (call'.fit = "fitted")
       /\ (PredictCalled /\ Len(performance_history) < 5) => call'.fit = "none"
      ]_vars

\* C6 witness: the model was fitted on the first 5 records, 11 records have
\* been passed since (so the oldest was evicted), and a later prediction was
\* served by that same model without a new fit.
C6_Witness ==
    /\ trained
    /\ model = Fit(SubSeq(recorded, 1, 5))
    /\ Len(recorded) = 11
    /\ Len(performance_history) = 10
    /\ call.op = "predict_performance"
    /\ call.fit = "none"
    /\ ~call.raised

\* C7 (as claimed): once a model fit has failed, that call and every later
\* predict_performance call return the default 0.5 with trained false and no
\* error.
C7_DefaultForeverAfterFailure ==
    (call.op = "predict_performance" /\ fit_failures > 0) =>
        /\ ~call.raised
        /\ ~trained
        /\ ret = 500

\* C7 (amended): a predict_performance call whose fit fails raises nothing,
\* leaves trained false and returns 0.5; after a failure, every prediction
\* made while trained is still false returns 0.5.
C7_FailedFitFallsBack ==
    call.op = "predict_performance" =>
        /\ call.fit = "failed" => (~call.raised /\ ~trained /\ ret = 500)
        /\ (fit_failures > 0 /\ ~trained) => (~call.raised /\ ret = 500)

\* C7 witness: a second fit has failed during a prediction and 0.5 was
\* returned.
C7_Witness ==
    /\ call.op = "predict_performance"
    /\ call.fit = "failed"
    /\ fit_failures = 2
    /\ ~trained
    /\ ret = 500

\* C8: every value predict_performance returns lies in [0, 1], whether the
\* model is untrained, trained, or a training has failed, and whatever the raw
\* prediction of the linear model is.
C8_ProbabilityInRange ==
    (call.op = "predict_performance" /\ ~call.raised) => (ret >= 0 /\ ret <= 1000)

\* C8 witness: the trained model's raw prediction for the level asked was
\* above 1 and 1 was returned.
C8_Witness ==
    /\ call.op = "predict_performance"
    /\ ~call.raised
    /\ trained
    /\ Predict(model, call.level) > 1000
    /\ ret = 1000

\* C11: decide_action sets use_nitro exactly when nitro_available > 50 (absent
\* means 0), clear_path is true (absent means true) and the nitro draw is below
\* the instance's aggression; the draw is made exactly when the first two
\* hold, and neither the obstacle branch nor the fumble draws matter.
C11_NitroIffThreeConditions ==
    call.op = "decide_action" =>
        LET gs == call.game_state
            nitro == IF gs.nitro_available.present THEN gs.nitro_available.v ELSE 0
            clear == IF gs.clear_path.present THEN gs.clear_path.v ELSE TRUE
        IN  /\ (nitro > 50 /\ clear) <=> (call.rNitro \in Draws)
            /\ ret.use_nitro <=> (nitro > 50 /\ clear /\ call.rNitro < ai.aggression)

\* C11 witness: nitro was used in a call that gave no clear_path, had a near
\* obstacle, and in which the fumble fired.
C11_Witness ==
    /\ call.op = "decide_action"
    /\ ret.use_nitro
    /\ ~call.game_state.clear_path.present
    /\ ObstacleNear(call.game_state)
    /\ call.rMistake \in Draws
    /\ call.rMistake < 50

\* C12 (as claimed): one draw decides the fumble: whenever it exceeds
\* skill_level the action has brake set and accelerate clear, and whenever it
\* does not, brake and accelerate are as the obstacle step set them.
C12_SingleDrawFumble ==
    call.op = "decide_action" =>
        LET step == ObstacleStep(call.game_state)
        IN  /\ call.rFumble > ai.skill_level => (ret.brake /\ ~ret.accelerate)
            /\ call.rFumble <= ai.skill_level =>
                   (ret.brake = step.brake /\ ret.accelerate = step.accelerate)

\* C12 (amended): two draws, both separate from the nitro draw, decide the
\* fumble: the second is made exactly when the first exceeds skill_level, the
\* action has brake set and accelerate clear whenever the first exceeds
\* skill_level and the second is below 0.5, and otherwise brake and accelerate
\* are as the obstacle step set them.
C12_TwoDrawFumble ==
    call.op = "decide_action" =>
        LET step == ObstacleStep(call.game_state)
            fumble == call.rFumble > ai.skill_level /\ call.rMistake \in Draws
                      /\ call.rMistake < 50
        IN  /\ (call.rFumble > ai.skill_level) <=> (call.rMistake \in Draws)
            /\ fumble => (ret.brake /\ ~ret.accelerate)
            /\ ~fumble => (ret.brake = step.brake /\ ret.accelerate = step.accelerate)

\* C12 witness: with no obstacle near, the first draw exceeded skill_level,
\* the second was below 0.5, and the action brakes instead of accelerating.
C12_Witness ==
    /\ call.op = "decide_action"
    /\ ~ObstacleNear(call.game_state)
    /\ call.rFumble > ai.skill_level
    /\ call.rMistake \in Draws
    /\ call.rMistake < 50
    /\ ret.brake
    /\ ~ret.accelerate

(***************************************************************************)
(* Claims about the path planner, checked under SpecPath                   *)
(***************************************************************************)
SquaredGap(p, q) == (p[1] - q[1]) * (p[1] - q[1]) + (p[2] - q[2]) * (p[2] - q[2])

\* The obstacle centre is closer than radius + 20 to the nearest point of the
\* segment, by cases: before the start, past the end, or beside the segment
\* (where the distance is |cross product| / length).
NearSegment(start, end, obstacle) ==
    LET c == <<obstacle[1], obstacle[2]>>
        limit == obstacle[3] + 20
        dx == end[1] - start[1]
        dy == end[2] - start[2]
        dot == (c[1] - start[1]) * dx + (c[2] - start[2]) * dy
        cross == (c[1] - start[1]) * dy - (c[2] - start[2]) * dx
    IN  /\ limit > 0
        /\ IF start = end \/ dot <= 0 THEN SquaredGap(c, start) < limit * limit
           ELSE IF dot >= SquaredGap(start, end) THEN SquaredGap(c, end) < limit * limit
           ELSE cross * cross < limit * limit * SquaredGap(start, end)

Blocked(start, end, obstacles) ==
    \E i \in 1..Len(obstacles) : NearSegment(start, end, obstacles[i])

Left(current) == <<current[1] - 50, current[2] + 50>>
Right(current) == <<current[1] + 50, current[2] + 50>>

\* C14: calculate_path returns the target unchanged whenever no obstacle
\* intersects the direct segment current->target, in particular for an empty
\* obstacle list and when current = target.
C14_ClearPathReturnsTarget ==
    call.op = "calculate_path" =>
        /\ ~Blocked(call.current_position, call.target_position, call.obstacles)
              => ret = call.target_position
        /\ call.obstacles = <<>> => ret = call.target_position

C14_Witness ==
    /\ call.op = "calculate_path"
    /\ call.obstacles # <<>>
    /\ call.current_position = call.target_position
    /\ ~Blocked(call.current_position, call.target_position, call.obstacles)
    /\ ret = call.target_position

\* C15: when the direct segment is blocked, the left waypoint
\* (x - 50, y + 50) is returned if its segment is obstacle-free, otherwise the
\* right waypoint (x + 50, y + 50) if its segment is obstacle-free; a returned
\* waypoint's segment is obstacle-free; current (0,0), target (100,0) and the
\* single obstacle (50,0,10) give (-50, 50).
C15_FirstClearAlternative ==
    call.op = "calculate_path" =>
        LET c == call.current_position
            obs == call.obstacles
            blocked == Blocked(c, call.target_position, obs)
        IN  /\ blocked /\ ~Blocked(c, Left(c), obs) => ret = Left(c)
            /\ blocked /\ Blocked(c, Left(c), obs) /\ ~Blocked(c, Right(c), obs)
                  => ret = Right(c)
            /\ blocked /\ ret \in {Left(c), Right(c)} => ~Blocked(c, ret, obs)
            /\ (c = <<0, 0>> /\ call.target_position = <<100, 0>>
                    /\ obs = << <<50, 0, 10>> >>) => ret = <<-50, 50>>

C15_Witness ==
    /\ call.op = "calculate_path"
    /\ Blocked(call.current_position, call.target_position, call.obstacles)
    /\ Blocked(call.current_position, Left(call.current_position), call.obstacles)
    /\ ret = Right(call.current_position)

\* C16: when the direct segment and both alternatives are blocked,
\* calculate_path returns current unchanged; its result is always one of the
\* target, the left alternative, the right alternative and current.
C16_StallsWhenAllBlocked ==
    call.op = "calculate_path" =>
        LET c == call.current_position
            obs == call.obstacles
        IN  /\ (/\ Blocked(c, call.target_position, obs)
                /\ Blocked(c, Left(c), obs)
                /\ Blocked(c, Right(c), obs)) => ret = c
            /\ ret \in {call.target_position, Left(c), Right(c), c}

C16_Witness ==
    /\ call.op = "calculate_path"
    /\ Blocked(call.current_position, call.target_position, call.obstacles)
    /\ Blocked(call.current_position, Left(call.current_position), call.obstacles)
    /\ Blocked(call.current_position, Right(call.current_position), call.obstacles)
    /\ call.target_position # call.current_position
    /\ ret = call.current_position

\* C17: the intersection test is true exactly when the obstacle centre is
\* strictly closer than radius + 20 to the nearest point of the segment
\* start->end; an obstacle beyond an end point is measured to that end point,
\* a distance of exactly radius + 20 does not intersect, and a zero-length
\* segment is measured as a point.
C17_IntersectsIffNearSegment ==
    call.op = "_intersects_obstacle" =>
        (ret <=> NearSegment(call.start, call.end, call.obstacle))

\* an obstacle on the infinite line, beyond the end point at exactly
\* radius + 20 from it, does not intersect
C17_Witness ==
    /\ call.op = "_intersects_obstacle"
    /\ call.start = <<0, 0>> /\ call.end = <<100, 0>>
    /\ call.obstacle = <<130, 0, 10>>
    /\ ret = FALSE

(***************************************************************************)
(* Claims about the random draws, checked under SpecRandom                  *)
(***************************************************************************)
\* C13: what calculate_speed and decide_action return is fixed by the
\* instance, the arguments and the seed: a draw that another component makes
\* in between changes neither the speed nor the action that the instance's
\* next call returns.
C13_UnaffectedByOtherDraws ==
    [][(rng' # rng /\ UNCHANGED call) =>
          /\ \A o \in BOOLEAN, pd \in PlayerDistances :
                calculate_speed_drawing(ai, o, pd, rng').value
                    = calculate_speed_drawing(ai, o, pd, rng).value
          /\ \A gs \in GameStates :
                decide_action_drawing(ai, gs, rng').value
                    = decide_action_drawing(ai, gs, rng).value]_vars

(***************************************************************************)
(* Claims about TrafficGenerator, checked under SpecTraffic                 *)
(***************************************************************************)
VehicleCount(density) ==
    CASE density = "low" -> 5 [] density = "medium" -> 10 [] density = "high" -> 15

Variance(density) ==
    CASE density = "low" -> 20 [] density = "medium" -> 30 [] density = "high" -> 40

WellFormedVehicle(v, density) ==
    /\ v.lane \in {0, 1, 2}
    /\ v.type \in {"car", "truck", "bus"}
    /\ v.speed >= 1000 * (60 - Variance(density))
    /\ v.speed <= 1000 * (100 + Variance(density))

\* C18 as stated: 5, 10 or 15 vehicles for low, medium or high, each with
\* position in [0, track_length), lane in {0,1,2}, type in {car, truck, bus}
\* and speed within [60 - variance, 100 + variance], for every track_length.
C18_PositionsInsideAnyTrack ==
    (call.op = "generate_traffic" /\ call.density \in {"low", "medium", "high"}) =>
        /\ Len(ret) = VehicleCount(call.density)
        /\ \A i \in 1..Len(ret) :
            /\ WellFormedVehicle(ret[i], call.density)
            /\ ret[i].position >= 0
            /\ ret[i].position < 1000 * call.track_length

\* C18, amended: the counts, lanes, types and speed ranges as stated; the
\* position is in [0, track_length) when track_length is positive, 0 when it
\* is 0 and in (track_length, 0] when it is negative.
C18_PositionsFollowTrackSign ==
    (call.op = "generate_traffic" /\ call.density \in {"low", "medium", "high"}) =>
        /\ Len(ret) = VehicleCount(call.density)
        /\ \A i \in 1..Len(ret) :
            /\ WellFormedVehicle(ret[i], call.density)
            /\ call.track_length > 0 =>
                 ret[i].position >= 0 /\ ret[i].position < 1000 * call.track_length
            /\ call.track_length = 0 => ret[i].position = 0
            /\ call.track_length < 0 =>
                 ret[i].position <= 0 /\ ret[i].position > 1000 * call.track_length

\* fifteen vehicles on a positive track, one in each lane, one of each type,
\* one of them beyond 9/10 of the track
C18_Witness ==
    /\ call.op = "generate_traffic"
    /\ call.density = "high" /\ call.track_length = 5000
    /\ Len(ret) = 15
    /\ \A lane \in {0, 1, 2} : \E i \in 1..Len(ret) : ret[i].lane = lane
    /\ \A type \in {"car", "truck", "bus"} : \E i \in 1..Len(ret) : ret[i].type = type
    /\ \E i \in 1..Len(ret) : ret[i].position > 4500000

\* C19: update_traffic advances every vehicle's position by exactly
\* speed * delta_time, leaves the lane of a vehicle whose lane-change draw did
\* not fire unchanged, never changes a speed, id or type, and never adds,
\* removes or reorders vehicles.
C19_UpdateMovesAndKeeps ==
    call.op = "update_traffic" =>
        /\ Len(ret) = Len(call.vehicles)
        /\ \A i \in 1..Len(ret) :
            LET before == call.vehicles[i]
                after == ret[i]
            IN  /\ 1000 * (after.position - before.position)
                       = before.speed * call.delta_time
                /\ ~call.fired[i] => after.lane = before.lane
                /\ after.speed = before.speed
                /\ after.id = before.id
                /\ after.type = before.type

\* two vehicles updated over 16 ms: the first one's draw fires and changes
\* its lane, the second one's does not
C19_Witness ==
    /\ call.op = "update_traffic"
    /\ call.delta_time = 16
    /\ Len(ret) = 2
    /\ call.fired[1] /\ ret[1].lane # call.vehicles[1].lane
    /\ ~call.fired[2] /\ ret[2].lane = call.vehicles[2].lane
    /\ ret[2].position # call.vehicles[2].position

(***************************************************************************)
(* Claims about get_recommendations, checked under SpecRecommend            *)
(***************************************************************************)
\* the five most recent records of the history (all of them when fewer)
Recent ==
    LET n == Len(performance_history)
    IN  [i \in 1..(IF n < 5 THEN n ELSE 5) |->
            performance_history[i + (IF n < 5 THEN 0 ELSE n - 5)]]

RecentCollisions == Sum([i \in 1..Len(Recent) |-> Recent[i].collisions])

RecentNitro ==
    Sum([i \in 1..Len(Recent) |->
            IF Recent[i].nitro_used.present THEN Recent[i].nitro_used.v ELSE 0])

RecentWins == Sum([i \in 1..Len(Recent) |-> IF Recent[i].won THEN 1 ELSE 0])

\* some rule of get_recommendations adds a message
SomeRuleFires(car_stats) ==
    LET n == Len(Recent)
        speed == IF car_stats.speed.present THEN car_stats.speed.v ELSE 100
        handling == IF car_stats.handling.present THEN car_stats.handling.v ELSE 50
    IN  \/ RecentCollisions > 3 * n
        \/ RecentNitro < 30 * n
        \/ 2 * RecentWins < n /\ (speed < 150 \/ handling < 70)

\* C20: get_recommendations never returns an empty list: with fewer than 2
\* records it returns only the 'play more races' message, and with 2 or more
\* records and no rule firing only the positive default message.
C20_NeverEmpty ==
    call.op = "get_recommendations" =>
        /\ ret # <<>>
        /\ Len(performance_history) < 2
              => ret = <<"Play more races to get personalized recommendations">>
        /\ (Len(performance_history) >= 2 /\ ~SomeRuleFires(call.car_stats))
              => ret = <<"Keep up the great work!">>

\* the positive default for a player who lost most of six races in a car at
\* both upgrade thresholds
C20_Witness ==
    /\ call.op = "get_recommendations"
    /\ Len(performance_history) = 6
    /\ 2 * RecentWins < Len(Recent)
    /\ ret = <<"Keep up the great work!">>

(***************************************************************************)
(* Further claims about OpponentAI, under SpecOpponent                      *)
(***************************************************************************)
\* 500 times the speed of the claim before noise and floor, in thousandths:
\* (100 skill_level + 5 level) in tenths, times 7/10, (500 + aggression)/500
\* and 9/10 where they apply
ScaledExpectedSpeed(self, obstacles_nearby, player_distance) ==
    (10 * self.skill_level + 50 * self.level)
        * (IF obstacles_nearby THEN 7 ELSE 10)
        * (IF player_distance > 0 THEN 500 + self.aggression ELSE 500)
        * (IF player_distance < -100 THEN 9 ELSE 10)

\* C21: before noise and floor calculate_speed is 100 * skill_level + 5 * level,
\* times 0.7 if obstacles_nearby, times (1 + 0.2 * aggression) if
\* player_distance > 0, times 0.9 if player_distance < -100, unchanged in
\* between; the returned value is max(50, that + noise), noise in [-10, 10].
C21_SpeedFormula ==
    call.op = "calculate_speed" =>
        LET expected == ScaledExpectedSpeed(ai, call.obstacles_nearby, call.player_distance)
                            + 500 * call.noise
        IN  /\ call.noise >= -10000 /\ call.noise <= 10000
            /\ 500 * ret = IF expected > 500 * 50000 THEN expected ELSE 500 * 50000

\* an expert behind the player near obstacles, above the floor
C21_Witness ==
    /\ call.op = "calculate_speed"
    /\ ai.difficulty = "expert"
    /\ call.obstacles_nearby /\ call.player_distance > 0
    /\ call.noise = 5000
    /\ ret > 50000

(***************************************************************************)
(* Claims about traffic updated frame after frame, under SpecTrafficLoop    *)
(***************************************************************************)
\* C22: starting from generated vehicles, after any number of update_traffic
\* calls every lane is in {0,1,2}; one call changes a lane by at most 1, and
\* a fired change at lane 0 gives lane 0 or 1, at lane 2 gives lane 2 or 1.
C22_LanesStayInRange ==
    /\ \A i \in 1..Len(traffic) : traffic[i].lane \in {0, 1, 2}
    /\ call.op = "update_traffic" =>
        \A i \in 1..Len(ret) :
            LET before == call.vehicles[i].lane
                after == ret[i].lane
            IN  /\ after - before \in {-1, 0, 1}
                /\ before = 0 => after \in {0, 1}
                /\ before = 2 => after \in {1, 2}

\* in a second or later update a change fires on a vehicle in lane 0 and on a
\* vehicle in lane 2, and both stay where they are
C22_Witness ==
    /\ call.op = "update_traffic"
    /\ ticks >= 2
    /\ \E i \in 1..Len(ret) :
        call.fired[i] /\ call.vehicles[i].lane = 0 /\ ret[i].lane = 0
    /\ \E i \in 1..Len(ret) :
        call.fired[i] /\ call.vehicles[i].lane = 2 /\ ret[i].lane = 2

(***************************************************************************)
(* Further claims about get_recommendations, under SpecRecommend            *)
(***************************************************************************)
\* the histories of a second engine that agrees with this one on the last 5
\* records: any older records followed by those 5
AgreeingHistories ==
    {older \o Recent : older \in ListsUpTo(RecordKinds, MaxOlder)}

\* C23: two engines whose histories agree on their last 5 records return the
\* same recommendations for the same car_stats, whatever their older records
\* are.
C23_OnlyLastFiveMatter ==
    (call.op = "get_recommendations" /\ Len(performance_history) >= 5) =>
        \A other \in AgreeingHistories :
            get_recommendations(other, call.car_stats) = ret

\* an engine agreeing on the last 5 records gets the same recommendations and
\* a different difficulty
C23_Witness ==
    /\ call.op = "get_recommendations"
    /\ Len(performance_history) = 6
    /\ \E other \in AgreeingHistories :
        /\ other # performance_history
        /\ get_recommendations(other, call.car_stats) = ret
        /\ calculate_difficulty(other) # calculate_difficulty(performance_history)

(***************************************************************************)
(* Claims about the difficulty registry, under SpecRegistry                 *)
(***************************************************************************)
\* what the registry holds for a player: the engine's history, trained flag
\* and model, and the difficulty it recommends
Held(adjs, engs, player_id) ==
    IF player_id \in DOMAIN adjs
    THEN [known |-> TRUE, engine |-> engs[adjs[player_id]],
          recommended |-> calculate_difficulty(engs[adjs[player_id]].performance_history)]
    ELSE [known |-> FALSE]

\* C24: a request for player A leaves what the registry holds for every other
\* player B unchanged, and the performance_history_count returned for A is
\* min(number of accepted POSTs for A, 10).
C24_PlayersAreIsolated ==
    [][/\ \A b \in Players :
            (call'.op = "none" \/ call'.player_id # b)
                => Held(adjusters', engines', b) = Held(adjusters, engines, b)
       /\ (call'.op \in {"post", "get"} /\ "performance_history_count" \in DOMAIN ret')
            => /\ call'.player_id \in DOMAIN posted'
               /\ ret'.performance_history_count
                    = (IF posted'[call'.player_id] < 10 THEN posted'[call'.player_id]
                       ELSE 10)]_vars

\* the eleventh POST of A answered with a count of 10 while B holds a record
C24_Witness ==
    /\ call.op = "post"
    /\ call.player_id = "A"
    /\ "A" \in DOMAIN posted /\ posted["A"] = 11
    /\ ret.status = 200 /\ ret.performance_history_count = 10

(***************************************************************************)
(* Claims about concurrent requests, under SpecConcurrent                   *)
(***************************************************************************)
\* C25: under concurrent POSTs for the same player id, first contact
\* included, exactly one engine is ever registered for the id and no record
\* is lost: once k requests have completed and none is in progress, the
\* player's history holds min(k, 10) records.
C25_OneEngineNoLostRecord ==
    /\ Len(engines) <= 1
    /\ (requests # <<>> /\ \A i \in 1..Len(requests) : requests[i].pc = "done") =>
        LET k == Len(requests)
        IN  Len(engines[adjusters[ThePlayer]].performance_history)
                = (IF k < 10 THEN k ELSE 10)

(***************************************************************************)
(* Implicit claims                                                          *)
(***************************************************************************)
\* C26: calculate_difficulty returns only 'easy', 'medium' or 'hard'; no
\* history makes it recommend 'expert'.
C26_NeverRecommendsExpert ==
    call.op = "calculate_difficulty" => ret \in {"easy", "medium", "hard"}

\* six flawless wins are rated 'hard'
C26_Witness ==
    /\ call.op = "calculate_difficulty"
    /\ Len(performance_history) = 6
    /\ \A i \in 1..6 : performance_history[i].won /\ performance_history[i].collisions = 0
    /\ ret = "hard"

\* the obstacle ahead is closer than 100 (a missing distance is infinite)
Near(game_state) ==
    game_state.obstacle_ahead_distance.present /\ game_state.obstacle_ahead_distance.v < 100

\* C27: in every action set returned by decide_action, accelerate and brake
\* are never both true, turn_left and turn_right are never both true, a turn
\* flag is true only when obstacle_ahead_distance < 100, and accelerate is true
\* only when it is >= 100 or absent.
C27_ActionSetConsistent ==
    call.op = "decide_action" =>
        /\ ~(ret.accelerate /\ ret.brake)
        /\ ~(ret.turn_left /\ ret.turn_right)
        /\ (ret.turn_left \/ ret.turn_right) => Near(call.game_state)
        /\ ret.accelerate => ~Near(call.game_state)

\* a fumble on a clear road: brake instead of accelerate, with nitro
C27_Witness ==
    /\ call.op = "decide_action"
    /\ ~Near(call.game_state)
    /\ call.rMistake \in Draws /\ call.rMistake < 50
    /\ ret.brake /\ ~ret.accelerate /\ ret.use_nitro

\* C28: for tiers 'hard' and 'expert' the fumble never occurs for any draw in
\* [0, 1): decide_action returns accelerate = true and brake = false whenever
\* no obstacle is within 100, and brake is true only in the near-obstacle case
\* where neither side is reported blocked.
C28_SkilledNeverFumble ==
    (call.op = "decide_action" /\ ai.difficulty \in {"hard", "expert"}) =>
        LET gs == call.game_state
            left == gs.obstacle_left.present /\ gs.obstacle_left.v
            right == gs.obstacle_right.present /\ gs.obstacle_right.v
        IN  /\ call.rMistake = NotDrawn
            /\ ~Near(gs) => (ret.accelerate /\ ~ret.brake)
            /\ ret.brake => (Near(gs) /\ ~left /\ ~right)

\* a 'hard' opponent whose skill draw is the largest one accelerates
C28_Witness ==
    /\ call.op = "decide_action"
    /\ ai.difficulty = "hard"
    /\ call.rFumble = 99
    /\ ~Near(call.game_state)
    /\ ret.accelerate /\ ~ret.brake

\* C30: if the current position lies strictly within radius + 20 of some
\* obstacle's centre, calculate_path returns current for every target.
C30_StallsInsideObstacle ==
    (/\ call.op = "calculate_path"
     /\ \E i \in 1..Len(call.obstacles) :
            LET o == call.obstacles[i]
            IN  /\ o[3] + 20 > 0
                /\ SquaredGap(call.current_position, <<o[1], o[2]>>)
                      < (o[3] + 20) * (o[3] + 20))
        => ret = call.current_position

\* inside the margin of the only obstacle, far from the target
C30_Witness ==
    /\ call.op = "calculate_path"
    /\ call.current_position = <<0, 0>>
    /\ call.target_position = <<100, 0>>
    /\ call.obstacles = << <<0, 0, 5>> >>
    /\ ret = <<0, 0>>

\* C29: in every reachable state of a DifficultyAdjuster trained implies at
\* least 5 records; the history length never decreases, and
\* calculate_difficulty, predict_performance and get_recommendations leave the
\* history unchanged.
C29_TrainedNeedsFiveHistoryGrows ==
    [][/\ trained' => Len(performance_history') >= 5
       /\ Len(performance_history') >= Len(performance_history)
       /\ call'.op \in {"calculate_difficulty", "predict_performance", "get_recommendations"}
            => performance_history' = performance_history]_vars

\* a trained adjuster at the cap, after an eleventh record, asked for
\* recommendations
C29_Witness ==
    /\ trained
    /\ Len(recorded) = 11
    /\ Len(performance_history) = 10
    /\ call.op = "get_recommendations"

====
